---- MODULE Spec2Model ----
(***************************************************************************)
(* Model of normalize_batch (src/src/api/normalize_leads.py): the batch    *)
(* normalizer that maps raw form submissions to canonical lead records.    *)
(*                                                                         *)
(* Python strings whose characters matter (submission keys, fragments,     *)
(* group sizes, date ranges, lodging names) are sequences of one-character *)
(* strings, so that lower(), "in", split('-'), strip() and int() are       *)
(* computed and not assumed.  Python values are tagged records.            *)
(***************************************************************************)
EXTENDS Integers, Sequences, FiniteSets, TLC

VARIABLES payload, pc, raw_leads, idx, lead, sd, group_size, lodging,
          date_ranges, notes, cleaned, result

vars == <<payload, pc, raw_leads, idx, lead, sd, group_size, lodging,
          date_ranges, notes, cleaned, result>>

\* ------------------------------------------------------------------------
\* Bounds of the exploration
\* ------------------------------------------------------------------------
MaxKeys == 2

MaxLeads == 2

\* ------------------------------------------------------------------------
\* Python values
\* ------------------------------------------------------------------------
StrV(s) == [t |-> "str", s |-> s]

IntV(n) == [t |-> "int", n |-> n]

BoolV(b) == [t |-> "bool", b |-> b]

ListV(l) == [t |-> "list", l |-> l]

None == [t |-> "none"]

\* bool(x): the truth value Python gives a value in `x or y` and `x and y`
Truthy(x) ==
  CASE x.t = "str"  -> x.s # <<>>
    [] x.t = "int"  -> x.n # 0
    [] x.t = "bool" -> x.b
    [] x.t = "list" -> x.l # <<>>
    [] x.t = "dict" -> TRUE
    [] OTHER        -> FALSE

\* x or y
PyOr(x, y) == IF Truthy(x) THEN x ELSE y

\* ------------------------------------------------------------------------
\* String operations
\* ------------------------------------------------------------------------
UpperCase == <<"A","B","C","D","E","F","G","H","I","J","K","L","M",
               "N","O","P","Q","R","S","T","U","V","W","X","Y","Z">>

LowerCase == <<"a","b","c","d","e","f","g","h","i","j","k","l","m",
               "n","o","p","q","r","s","t","u","v","w","x","y","z">>

Digits == <<"0","1","2","3","4","5","6","7","8","9">>

LowerChar(c) ==
  IF \E i \in 1..Len(UpperCase) : UpperCase[i] = c
  THEN LowerCase[CHOOSE i \in 1..Len(UpperCase) : UpperCase[i] = c]
  ELSE c

\* k.lower()
Lower(s) == [i \in 1..Len(s) |-> LowerChar(s[i])]

\* term in s
Contains(term, s) ==
  \E i \in 0..(Len(s) - Len(term)) : SubSeq(s, i + 1, i + Len(term)) = term

IsSpace(c) == c = " "

RECURSIVE LStrip(_)
LStrip(s) == IF s # <<>> /\ IsSpace(Head(s)) THEN LStrip(Tail(s)) ELSE s

RECURSIVE RStrip(_)
RStrip(s) ==
  IF s # <<>> /\ IsSpace(s[Len(s)]) THEN RStrip(SubSeq(s, 1, Len(s) - 1)) ELSE s

\* str.strip
Strip(s) == RStrip(LStrip(s))

\* s.split('-'): the parts between hyphens, always at least one part
RECURSIVE SplitHyphen(_, _)
SplitHyphen(s, cur) ==
  IF s = <<>> THEN <<cur>>
  ELSE IF Head(s) = "-" THEN <<cur>> \o SplitHyphen(Tail(s), <<>>)
  ELSE SplitHyphen(Tail(s), Append(cur, Head(s)))

Split(s) == SplitHyphen(s, <<>>)

IsDigit(c) == \E i \in 1..Len(Digits) : Digits[i] = c

DigitVal(c) == (CHOOSE i \in 1..Len(Digits) : Digits[i] = c) - 1

RECURSIVE DecimalVal(_, _)
DecimalVal(s, acc) ==
  IF s = <<>> THEN acc ELSE DecimalVal(Tail(s), 10 * acc + DigitVal(Head(s)))

\* ------------------------------------------------------------------------
\* Outcomes of a statement: a value, or a raised exception and its line
\* ------------------------------------------------------------------------
Ok(v) == [ok |-> TRUE, val |-> v]

Raise(e, ln) == [ok |-> FALSE, exc |-> e, line |-> ln]

\* int(x) of line 42
PyInt(x) ==
  CASE x.t = "int"  -> Ok(x.n)
    [] x.t = "bool" -> Ok(IF x.b THEN 1 ELSE 0)
    [] x.t = "str"  ->
         LET body   == Strip(x.s)
             signed == body # <<>> /\ Head(body) \in {"+", "-"}
             digs   == IF signed THEN Tail(body) ELSE body
         IN  IF digs # <<>> /\ \A i \in 1..Len(digs) : IsDigit(digs[i])
             THEN Ok(IF signed /\ Head(body) = "-"
                     THEN 0 - DecimalVal(digs, 0) ELSE DecimalVal(digs, 0))
             ELSE Raise("ValueError", 42)
    [] OTHER        -> Raise("TypeError", 42)

\* ------------------------------------------------------------------------
\* String literals of the source (lines 42, 46, 49, 50, 56, 58, 59)
\* ------------------------------------------------------------------------
fGroupSize == <<"g","r","o","u","p"," ","s","i","z","e">>

fSize == <<"s","i","z","e">>

fLodgingOption == <<"l","o","d","g","i","n","g"," ","o","p","t","i","o","n">>

fLodging == <<"l","o","d","g","i","n","g">>

fComment == <<"c","o","m","m","e","n","t">>

fInstruction == <<"i","n","s","t","r","u","c","t","i","o","n">>

fNote == <<"n","o","t","e">>

fTextUpdate == <<"t","e","x","t"," ","u","p","d","a","t","e">>

fEmailUpdate == <<"e","m","a","i","l"," ","u","p","d","a","t","e">>

kSelectedDateRanges == <<"S","e","l","e","c","t","e","d","D","a","t","e","R","a","n","g","e","s">>

sAny == <<"A","n","y">>

\* ------------------------------------------------------------------------
\* Field extraction (lines 34-50).  A submission is the sequence of its
\* [k, v] entries in the dict's iteration order.
\* ------------------------------------------------------------------------
\* any(term in k.lower() for term in keys)
AnyTermIn(keys, k) == \E j \in 1..Len(keys) : Contains(keys[j], Lower(k))

RECURSIVE first_from(_, _, _)
first_from(sdx, keys, i) ==
  IF i > Len(sdx) THEN None
  ELSE IF AnyTermIn(keys, sdx[i].k) THEN sdx[i].v
  ELSE first_from(sdx, keys, i + 1)

\* first, returning the value of the last matching key instead of the first
RECURSIVE last_from(_, _, _)
last_from(sdx, keys, i) ==
  IF i < 1 THEN None
  ELSE IF AnyTermIn(keys, sdx[i].k) THEN sdx[i].v
  ELSE last_from(sdx, keys, i - 1)

first_last(sdx, keys) == last_from(sdx, keys, Len(sdx))

\* def first(keys), closed over sd
first(sdx, keys) == first_from(sdx, keys, 1)

\* line 42: int(first(["group size", "size"]) or 1)
extract_group_size(sdx) ==
  PyInt(PyOr(first(sdx, <<fGroupSize, fSize>>), IntV(1)))

\* line 47: v if isinstance(v, list) else [v]
AsList(v) == IF v.t = "list" THEN v.l ELSE <<v>>

RECURSIVE lodging_from(_, _)
lodging_from(sdx, i) ==
  IF i > Len(sdx) THEN <<>>
  ELSE IF Contains(fLodgingOption, Lower(sdx[i].k))
          \/ Contains(fLodging, Lower(sdx[i].k))
       THEN AsList(sdx[i].v) \o lodging_from(sdx, i + 1)
       ELSE lodging_from(sdx, i + 1)

\* lodging taken from the first matching key only
extract_lodging_first(sdx) ==
  LET m == { i \in 1..Len(sdx) : Contains(fLodging, Lower(sdx[i].k)) }
  IN  IF m = {} THEN <<>>
      ELSE AsList(sdx[CHOOSE i \in m : \A j \in m : i <= j].v)

\* lines 44-47
extract_lodging(sdx) == lodging_from(sdx, 1)

\* dict.get(key, default)
dict_get(sdx, key, default) ==
  IF \E i \in 1..Len(sdx) : sdx[i].k = key
  THEN sdx[CHOOSE i \in 1..Len(sdx) : sdx[i].k = key].v
  ELSE default

\* line 49
extract_date_ranges(sdx) == dict_get(sdx, kSelectedDateRanges, ListV(<<>>))

\* line 50
extract_notes(sdx) == PyOr(first(sdx, <<fComment, fInstruction, fNote>>), StrV(<<>>))

\* lines 58-59: any(term in k.lower() and sd[k] for k in sd)
opt_in(sdx, term) ==
  \E i \in 1..Len(sdx) : Contains(term, Lower(sdx[i].k)) /\ Truthy(sdx[i].v)

\* line 56: lodging or ["Any"]
preferred_lodging_type(lod) == IF lod # <<>> THEN lod ELSE <<StrV(sAny)>>

\* lines 52-62: the dict display; "_id" is evaluated first
build_record(ld, sdx, gs, lod, dr, nts) ==
  IF ~ld.has_id \/ ~ld.id.has_oid THEN Raise("KeyError", 54)
  ELSE Ok([_id                    |-> ld.id.oid,
           group_size             |-> gs,
           preferred_lodging_type |-> preferred_lodging_type(lod),
           desired_date_ranges    |-> dr,
           text_opt_in            |-> opt_in(sdx, fTextUpdate),
           email_opt_in           |-> opt_in(sdx, fEmailUpdate),
           notes                  |-> nts])

\* ------------------------------------------------------------------------
\* Revenue (lines 63-68)
\* ------------------------------------------------------------------------
\* iteration over a list, or over the characters of a string
Iter(v) ==
  IF v.t = "list" THEN v.l ELSE [i \in 1..Len(v.s) |-> StrV(<<v.s[i]>>)]

Iterable(v) == v.t \in {"list", "str"}

\* lines 63-65: max(... for rng in date_ranges for start, end in [...]).
\* max() pulls the first element of the generator: the split of the first
\* range is unpacked into (start, end), then `pd`, a name the module never
\* binds, is looked up.  An empty generator makes max() raise.
nights_step(dr) ==
  IF ~Iterable(dr) THEN Raise("TypeError", 63)
  ELSE IF Iter(dr) = <<>> THEN Raise("ValueError", 63)
  ELSE LET rng == Iter(dr)[1]
       IN  IF rng.t # "str" THEN Raise("AttributeError", 65)
           ELSE IF Len(Split(rng.s)) # 2 THEN Raise("ValueError", 65)
           ELSE Raise("NameError", 63)

\* line 31: lead.get("submission_data", {})
lead_sd(ld) == IF ld.has_sd THEN ld.sd ELSE <<>>

\* lines 31-68, the body of one iteration.  Line 63 raises for every value
\* of date_ranges, so lines 66-68 are never reached and no iteration ends
\* normally.
lead_body(item) ==
  IF item.t # "dict" THEN Raise("AttributeError", 31)
  ELSE LET sdx == lead_sd(item)
           gs  == extract_group_size(sdx)
       IN  IF ~gs.ok THEN gs
           ELSE LET rec == build_record(item, sdx, gs.val, extract_lodging(sdx),
                                        extract_date_ranges(sdx), extract_notes(sdx))
                IN  IF ~rec.ok THEN rec
                    ELSE nights_step(extract_date_ranges(sdx))

\* line 27: payload.get("leads", [])
get_leads(p) ==
  IF p.t # "dict" THEN Raise("AttributeError", 27)
  ELSE Ok(IF p.has_leads THEN p.leads ELSE ListV(<<>>))

Returned(out) == [status |-> "returned", leads |-> out]

Raised(r) == [status |-> "raised", exc |-> r.exc, line |-> r.line]

Running == [status |-> "running"]

\* normalize_batch as a function of its argument: what the call returns or
\* raises
normalize_batch(p) ==
  LET rl == get_leads(p)
  IN  IF ~rl.ok THEN Raised(rl)
      ELSE IF ~Iterable(rl.val) THEN Raised(Raise("TypeError", 30))
      ELSE IF Iter(rl.val) = <<>> THEN Returned(<<>>)
      ELSE Raised(lead_body(Iter(rl.val)[1]))

\* ------------------------------------------------------------------------
\* Inputs
\* ------------------------------------------------------------------------
kGroupSize == <<"G","r","o","u","p"," ","S","i","z","e">>

kSize == <<"S","I","Z","E">>

kLodgingOption == <<"L","o","d","g","i","n","g"," ","O","p","t","i","o","n">>

kLodging == <<"l","o","d","g","i","n","g">>

kNotes == <<"N","o","t","e","s">>

kComment == <<"C","o","m","m","e","n","t">>

kTextUpdates == <<"T","e","x","t"," ","U","p","d","a","t","e","s">>

kEmailUpdates == <<"E","m","a","i","l"," ","U","p","d","a","t","e","s">>

kName == <<"N","a","m","e">>

sCabin == <<"C","a","b","i","n">>

sTent == <<"T","e","n","t">>

\* entries a submission is built from: every key with the values tried for it
Pool ==
  { [k |-> kGroupSize, v |-> StrV(<<"2">>)],
    [k |-> kGroupSize, v |-> StrV(<<"a","b","c">>)],
    [k |-> kGroupSize, v |-> StrV(<<>>)],
    [k |-> kGroupSize, v |-> ListV(<<StrV(<<"2">>)>>)],
    [k |-> kSize, v |-> StrV(<<"0">>)],
    [k |-> kLodgingOption, v |-> ListV(<<StrV(sCabin), StrV(sTent)>>)],
    [k |-> kLodgingOption, v |-> ListV(<<>>)],
    [k |-> kLodging, v |-> StrV(sTent)],
    [k |-> kNotes, v |-> StrV(<<"h","i">>)],
    [k |-> kComment, v |-> StrV(<<>>)],
    [k |-> kTextUpdates, v |-> BoolV(TRUE)],
    [k |-> kEmailUpdates, v |-> BoolV(FALSE)],
    [k |-> kName, v |-> StrV(<<"x">>)],
    [k |-> kSelectedDateRanges, v |-> ListV(<<StrV(<<"6","/","3"," ","-"," ","6","/","7">>)>>)],
    [k |-> kSelectedDateRanges, v |-> ListV(<<StrV(<<"6","/","3"," ","-"," ","6","/","5">>), StrV(<<"6","/","1"," ","-"," ","6","/","6">>)>>)],
    [k |-> kSelectedDateRanges, v |-> ListV(<<StrV(<<"x"," ","-"," ","y">>), StrV(<<"6","/","2"," ","-"," ","6","/","6">>)>>)],
    [k |-> kSelectedDateRanges, v |-> ListV(<<StrV(<<"6","-","3"," ","-"," ","6","-","7">>)>>)],
    [k |-> kSelectedDateRanges, v |-> ListV(<<StrV(<<"6","/","7"," ","-"," ","6","/","3">>)>>)],
    [k |-> kSelectedDateRanges, v |-> ListV(<<>>)] }

SeqsUpTo(S, n) == UNION { [1..k -> S] : k \in 0..n }

\* a dict has each key once
DistinctKeys(sdx) == \A i, j \in 1..Len(sdx) : sdx[i].k = sdx[j].k => i = j

Submissions == { sdx \in SeqsUpTo(Pool, MaxKeys) : DistinctKeys(sdx) }

LeadWithId(oid, sdx) ==
  [t |-> "dict", has_id |-> TRUE, id |-> [has_oid |-> TRUE, oid |-> oid],
   has_sd |-> TRUE, sd |-> sdx]

\* a lead with no "submission_data" entry
LeadNoSubmission ==
  [t |-> "dict", has_id |-> TRUE, id |-> [has_oid |-> TRUE, oid |-> "a"],
   has_sd |-> FALSE, sd |-> <<>>]

\* the revenue example: Tent, group of 2, one range of 3 nights
LeadExample ==
  LeadWithId("b", <<[k |-> kGroupSize, v |-> StrV(<<"2">>)],
                    [k |-> kLodging, v |-> StrV(sTent)],
                    [k |-> kSelectedDateRanges, v |-> ListV(<<StrV(<<"6","/","3"," ","-"," ","6","/","6">>)>>)]>>)

\* a lead with no "_id" entry
LeadNoId ==
  [t |-> "dict", has_id |-> FALSE, id |-> [has_oid |-> FALSE, oid |-> ""],
   has_sd |-> TRUE, sd |-> <<>>]

\* a lead whose "_id" has no "$oid"
LeadNoOid ==
  [t |-> "dict", has_id |-> TRUE, id |-> [has_oid |-> FALSE, oid |-> ""],
   has_sd |-> TRUE, sd |-> <<>>]

LeadBadSize == LeadWithId("c", <<[k |-> kGroupSize, v |-> StrV(<<"a","b","c">>)]>>)

\* leads that batches of several leads are built from
BatchLeads ==
  { LeadNoSubmission, LeadExample, LeadNoId, LeadNoOid, LeadBadSize, StrV(<<"x">>) }

Batches == SeqsUpTo(BatchLeads, MaxLeads)

Envelope(v) == [t |-> "dict", has_leads |-> TRUE, leads |-> v]

\* a lead object passed as the payload: a dict with no "leads" entry
BareLead(ld) == [t |-> "dict", has_leads |-> FALSE, lead |-> ld]

Payloads ==
       { Envelope(ListV(<<LeadWithId("a", sdx)>>)) : sdx \in Submissions }
  \cup { Envelope(ListV(b)) : b \in Batches }
  \cup { ListV(b) : b \in Batches }
  \cup { BareLead(ld) : ld \in { x \in BatchLeads : x.t = "dict" } }
  \cup { StrV(<<"l","e","a","d","s">>), IntV(7), Envelope(IntV(5)), Envelope(None),
         Envelope(StrV(<<"a","b">>)) }

\* ------------------------------------------------------------------------
\* The call, statement by statement
\* ------------------------------------------------------------------------
Init ==
  /\ payload \in Payloads
  /\ pc = "call"
  /\ raw_leads = None
  /\ idx = 1
  /\ lead = None
  /\ sd = <<>>
  /\ group_size = None
  /\ lodging = None
  /\ date_ranges = None
  /\ notes = None
  /\ cleaned = <<>>
  /\ result = Running

\* lines 27-28
GetLeads ==
  /\ pc = "call"
  /\ LET r == get_leads(payload)
     IN  IF r.ok
         THEN /\ raw_leads' = r.val
              /\ pc' = "for"
              /\ result' = result
         ELSE /\ raw_leads' = raw_leads
              /\ pc' = "done"
              /\ result' = Raised(r)
  /\ cleaned' = <<>>
  /\ UNCHANGED <<payload, idx, lead, sd, group_size, lodging, date_ranges, notes>>

\* lines 30-31: the next lead of the iteration and its submission
ForLead ==
  /\ pc = "for"
  /\ IF Iterable(raw_leads) THEN idx <= Len(Iter(raw_leads)) ELSE TRUE
  /\ IF ~Iterable(raw_leads)
     THEN /\ result' = Raised(Raise("TypeError", 30))
          /\ pc' = "done"
          /\ UNCHANGED <<lead, sd, idx>>
     ELSE LET item == Iter(raw_leads)[idx]
          IN  /\ lead' = item
              /\ idx' = idx + 1
              /\ IF item.t # "dict"
                 THEN /\ result' = Raised(Raise("AttributeError", 31))
                      /\ pc' = "done"
                      /\ sd' = sd
                 ELSE /\ sd' = lead_sd(item)
                      /\ pc' = "extract"
                      /\ result' = result
  /\ UNCHANGED <<payload, raw_leads, group_size, lodging, date_ranges, notes, cleaned>>

\* lines 42-50
Extract ==
  /\ pc = "extract"
  /\ LET gs == extract_group_size(sd)
     IN  IF ~gs.ok
         THEN /\ result' = Raised(gs)
              /\ pc' = "done"
              /\ UNCHANGED <<group_size, lodging, date_ranges, notes>>
         ELSE /\ group_size' = gs.val
              /\ lodging' = extract_lodging(sd)
              /\ date_ranges' = extract_date_ranges(sd)
              /\ notes' = extract_notes(sd)
              /\ pc' = "append"
              /\ result' = result
  /\ UNCHANGED <<payload, raw_leads, idx, lead, sd, cleaned>>

\* lines 52-62
AppendRecord ==
  /\ pc = "append"
  /\ LET rec == build_record(lead, sd, group_size, lodging, date_ranges, notes)
     IN  IF ~rec.ok
         THEN /\ result' = Raised(rec)
              /\ pc' = "done"
              /\ cleaned' = cleaned
         ELSE /\ cleaned' = Append(cleaned, rec.val)
              /\ pc' = "nights"
              /\ result' = result
  /\ UNCHANGED <<payload, raw_leads, idx, lead, sd, group_size, lodging,
                 date_ranges, notes>>

\* lines 63-65: raises for every date_ranges, after the record was appended
Nights ==
  /\ pc = "nights"
  /\ result' = Raised(nights_step(date_ranges))
  /\ pc' = "done"
  /\ UNCHANGED <<payload, raw_leads, idx, lead, sd, group_size, lodging,
                 date_ranges, notes, cleaned>>

\* line 71, when the iteration is exhausted
Return ==
  /\ pc = "for"
  /\ IF Iterable(raw_leads) THEN idx > Len(Iter(raw_leads)) ELSE FALSE
  /\ result' = Returned(cleaned)
  /\ pc' = "done"
  /\ UNCHANGED <<payload, raw_leads, idx, lead, sd, group_size, lodging,
                 date_ranges, notes, cleaned>>

Next == GetLeads \/ ForLead \/ Extract \/ AppendRecord \/ Nights \/ Return

Spec == Init /\ [][Next]_vars

\* the statement-by-statement run ends as the function says
RunAgrees == pc = "done" => result = normalize_batch(payload)

\* ------------------------------------------------------------------------
\* Pricing (lines 14, 66-67).  Unreached by any run (line 63 raises first);
\* the revenue properties are stated with them.
\* ------------------------------------------------------------------------
\* the pricing table of the revenue example
PRICING == <<[k |-> sCabin, v |-> 100], [k |-> sTent, v |-> 40]>>

\* PRICING.get(lod, 0)
pricing_get(lod) ==
  IF lod.t = "str" /\ \E i \in 1..Len(PRICING) : PRICING[i].k = lod.s
  THEN PRICING[CHOOSE i \in 1..Len(PRICING) : PRICING[i].k = lod.s].v
  ELSE 0

\* line 66: min(PRICING.get(lod, 0) for lod in lodging or PRICING)
price_per_night(lod) ==
  LET src    == IF lod # <<>> THEN lod
                ELSE [i \in 1..Len(PRICING) |-> StrV(PRICING[i].k)]
      prices == { pricing_get(src[i]) : i \in 1..Len(src) }
  IN  CHOOSE p \in prices : \A q \in prices : p <= q

\* line 67
est_rev(nights, price, gs) == nights * price * gs

\* ------------------------------------------------------------------------
\* Vocabulary of the properties
\* ------------------------------------------------------------------------
Done == pc = "done"

UsableId(ld) == ld.has_id /\ ld.id.has_oid

\* the payload is { "leads": [ lead objects ] }
IsEnvelopeOfLeads ==
  /\ payload.t = "dict"
  /\ payload.has_leads
  /\ payload.leads.t = "list"
  /\ \A i \in 1..Len(payload.leads.l) : payload.leads.l[i].t = "dict"

InputLeads == payload.leads.l

\* the group size of every lead parses, so that line 42 is not what fails
GroupSizesParse ==
  \A i \in 1..Len(InputLeads) : extract_group_size(lead_sd(InputLeads[i])).ok

IdsOf(lds) == [i \in 1..Len(lds) |-> lds[i].id.oid]

OutputIds(out) == [i \in 1..Len(out) |-> out[i]._id]

\* every lead has a usable id, so that line 54 is not what fails
IdsUsable == \A i \in 1..Len(InputLeads) : UsableId(InputLeads[i])

\* the record of the output batch that carries a lead's id
Emitted(ld, rec) ==
  /\ result.status = "returned"
  /\ \E j \in 1..Len(result.leads) : result.leads[j] = rec
  /\ rec._id = ld.id.oid

\* which of the keys tried contain a fragment, lowercased (read off the keys)
KeysContaining(frag) ==
  CASE frag = fGroupSize     -> {kGroupSize}
    [] frag = fSize          -> {kGroupSize, kSize}
    [] frag = fLodgingOption -> {kLodgingOption}
    [] frag = fLodging       -> {kLodgingOption, kLodging}
    [] frag = fComment       -> {kComment}
    [] frag = fNote          -> {kNotes}
    [] frag = fTextUpdate    -> {kTextUpdates}
    [] frag = fEmailUpdate   -> {kEmailUpdates}
    [] OTHER                 -> {}

\* positions of a submission whose key contains one of the fragments
MatchingPositions(sdx, frs) ==
  { i \in 1..Len(sdx) : \E j \in 1..Len(frs) : sdx[i].k \in KeysContaining(frs[j]) }

Least(S) == CHOOSE i \in S : \A j \in S : i <= j

Greatest(S) == CHOOSE i \in S : \A j \in S : j <= i

Reverse(q) == [i \in 1..Len(q) |-> q[Len(q) + 1 - i]]

\* Date ranges as section 4.3 reads them: "<start> - <end>", each date
\* "M/D" or "M-D" of one month; nights = end day - start day.
IsDate(d) ==
  Len(d) = 3 /\ IsDigit(d[1]) /\ d[2] \in {"/", "-"} /\ IsDigit(d[3])

SeparatorAt(r, i) == SubSeq(r, i, i + 2) = <<" ", "-", " ">>

RangeNights(rng) ==
  IF rng.t = "str" /\ \E i \in 1..Len(rng.s) : SeparatorAt(rng.s, i)
  THEN LET i  == CHOOSE i \in 1..Len(rng.s) : SeparatorAt(rng.s, i)
           st == SubSeq(rng.s, 1, i - 1)
           en == SubSeq(rng.s, i + 3, Len(rng.s))
       IN  IF IsDate(st) /\ IsDate(en) /\ st[1] = en[1]
           THEN DigitVal(en[3]) - DigitVal(st[3]) ELSE 0
  ELSE 0

\* night counts of the valid ranges of a submission
ValidNights(sdx) ==
  LET dr == extract_date_ranges(sdx)
  IN  IF dr.t = "list"
      THEN { RangeNights(dr.l[i]) : i \in { j \in 1..Len(dr.l) : RangeNights(dr.l[j]) > 0 } }
      ELSE {}

HasMalformedRange(sdx) ==
  LET dr == extract_date_ranges(sdx)
  IN  dr.t = "list" /\ \E i \in 1..Len(dr.l) : RangeNights(dr.l[i]) <= 0

\* total_nights x price x group_size of a lead with a valid range
ExpectedRevenue(sdx, gs) ==
  est_rev(Greatest(ValidNights(sdx)), price_per_night(extract_lodging(sdx)), gs)

\* ------------------------------------------------------------------------
\* Properties
\* ------------------------------------------------------------------------

\* C1: a lead without a usable id ("_id" absent, or without "$oid") does
\* not abort the batch: the call returns, and the output holds exactly the
\* leads with a usable id, in input order.
C1_MissingIdContained ==
  (Done /\ IsEnvelopeOfLeads /\ GroupSizesParse /\ \E i \in 1..Len(InputLeads) : ~UsableId(InputLeads[i]))
    => /\ result.status = "returned"
       /\ OutputIds(result.leads) = IdsOf(SelectSeq(InputLeads, UsableId))

\* C2: when every lead of { "leads": [L1..Ln] } has a usable id, the call
\* returns n canonical leads, the i-th carrying the id of Li.
C2_OnePerLeadInOrder ==
  (Done /\ IsEnvelopeOfLeads /\ GroupSizesParse /\ IdsUsable)
    => /\ result.status = "returned"
       /\ Len(result.leads) = Len(InputLeads)
       /\ OutputIds(result.leads) = IdsOf(InputLeads)

\* C3: a lead with empty or absent date ranges is still emitted, with
\* desired_date_ranges empty and without an estimated_revenue key.
C3_NoRangesNoRevenue ==
  (Done /\ IsEnvelopeOfLeads /\ GroupSizesParse /\ IdsUsable)
    => \A i \in 1..Len(InputLeads) :
         LET ld == InputLeads[i]
         IN  (extract_date_ranges(lead_sd(ld)) = ListV(<<>>))
               => \E j \in 1..Len(cleaned) :
                    /\ Emitted(ld, cleaned[j])
                    /\ cleaned[j].desired_date_ranges = ListV(<<>>)
                    /\ "estimated_revenue" \notin DOMAIN cleaned[j]

\* C4: a lead with at least one valid date range is emitted with
\* estimated_revenue = total_nights x price x group_size >= 0, total_nights
\* the maximum over the valid ranges, price the minimum over the selected
\* lodging types (over the whole table for the default lodging).
C4_Revenue ==
  (Done /\ IsEnvelopeOfLeads /\ GroupSizesParse /\ IdsUsable)
    => \A i \in 1..Len(InputLeads) :
         LET ld == InputLeads[i]
         IN  (ValidNights(lead_sd(ld)) # {})
               => \E j \in 1..Len(cleaned) :
                    /\ Emitted(ld, cleaned[j])
                    /\ "estimated_revenue" \in DOMAIN cleaned[j]
                    /\ cleaned[j].estimated_revenue
                         = ExpectedRevenue(lead_sd(ld), cleaned[j].group_size)
                    /\ cleaned[j].estimated_revenue >= 0

\* C5: group_size is an integer >= 1, it is 1 when no key contains
\* "group size" or "size", and no group-size value makes the lead fail
\* (line 42 never raises).
C5_GroupSizeDefault ==
  /\ ~(result.status = "raised" /\ result.line = 42)
  /\ pc \in {"append", "nights"}
       => /\ group_size >= 1
          /\ MatchingPositions(sd, <<fGroupSize, fSize>>) = {} => group_size = 1

\* C6: a bare lead object L gives what { "leads": [L] } gives, and a bare
\* list Ls gives what { "leads": Ls } gives.
C6_Shorthand ==
  Done =>
    /\ (payload.t = "dict" /\ ~payload.has_leads)
         => result = normalize_batch(Envelope(ListV(<<payload.lead>>)))
    /\ payload.t = "list" => result = normalize_batch(Envelope(payload))

\* a payload that is neither the envelope nor a shorthand
MalformedEnvelope ==
  \/ payload.t \in {"str", "int"}
  \/ /\ payload.t = "dict"
     /\ payload.has_leads
     /\ \/ payload.leads.t # "list"
        \/ \E i \in 1..Len(payload.leads.l) : payload.leads.l[i].t # "dict"

\* C7: a malformed envelope gives the empty output batch and no exception.
C7_MalformedEnvelopeEmpty ==
  (Done /\ MalformedEnvelope) => result = Returned(<<>>)

\* C8: a malformed or non-positive range is discarded without aborting the
\* lead: the lead is emitted, with estimated_revenue computed from the
\* remaining valid ranges only, and omitted when none remains.
C8_MalformedRangeContained ==
  (Done /\ IsEnvelopeOfLeads /\ GroupSizesParse /\ IdsUsable)
    => \A i \in 1..Len(InputLeads) :
         LET ld == InputLeads[i]
             vn == ValidNights(lead_sd(ld))
         IN  (HasMalformedRange(lead_sd(ld)))
               => \E j \in 1..Len(cleaned) :
                    /\ Emitted(ld, cleaned[j])
                    /\ IF vn = {}
                       THEN "estimated_revenue" \notin DOMAIN cleaned[j]
                       ELSE /\ "estimated_revenue" \in DOMAIN cleaned[j]
                            /\ Greatest(vn) > 0
                            /\ cleaned[j].estimated_revenue
                                 = ExpectedRevenue(lead_sd(ld), cleaned[j].group_size)

\* fragment lists the matcher is asked with, in both orders
FragmentLists ==
  { <<fGroupSize, fSize>>, <<fSize, fGroupSize>>, <<fSize>>,
    <<fComment, fInstruction, fNote>>, <<fNote, fInstruction, fComment>>,
    <<fLodging>>, <<fInstruction>>, <<>> }

\* C9: first returns the value of the first key, in the submission's order,
\* that contains one of the fragments, whichever fragment matched and in
\* whatever order the fragments are given, and None exactly when no key
\* contains a fragment; notes is that value for the notes fragments.
C9_FirstMatch ==
  /\ \A frs \in FragmentLists :
       LET m == MatchingPositions(sd, frs)
           r == first(sd, frs)
       IN  /\ m = {} <=> r = None
           /\ m # {} => r = sd[Least(m)].v
           /\ first(sd, Reverse(frs)) = r
  /\ pc \in {"append", "nights"}
       => LET m == MatchingPositions(sd, <<fComment, fInstruction, fNote>>)
          IN  notes = IF m # {} /\ Truthy(sd[Least(m)].v)
                      THEN sd[Least(m)].v ELSE StrV(<<>>)

\* two keys contain "size" with different values, and the first one was used
C9_Witness ==
  /\ pc = "append"
  /\ Len(sd) = 2
  /\ sd[1].k = kSize /\ sd[2].k = kGroupSize
  /\ sd[1].v # sd[2].v
  /\ group_size = 0

\* the flattened values of every key containing "lodging", in key order
RECURSIVE LodgingValues(_, _)
LodgingValues(sdx, n) ==
  IF n = 0 THEN <<>>
  ELSE LodgingValues(sdx, n - 1)
         \o (IF sdx[n].k \in KeysContaining(fLodging)
             THEN IF sdx[n].v.t = "list" THEN sdx[n].v.l ELSE <<sdx[n].v>>
             ELSE <<>>)

\* the record line 52 just appended, built from sd
LastRecord == cleaned[Len(cleaned)]

TableAgrees ==
  \A e \in Pool : \A frs \in FragmentLists : \A j \in 1..Len(frs) :
    e.k \in KeysContaining(frs[j]) <=> Contains(frs[j], Lower(e.k))

====
